---- MODULE Spec2Model ----
(***************************************************************************)
(* A model of cnpz: an incremental writer of ZIP / NumPy .npz archives.    *)
(*                                                                         *)
(* Integers wider than TLC's own are modelled as little-endian byte        *)
(* sequences of their C++ width (uint16_t: 2 bytes, uint32_t: 4 bytes,     *)
(* size_t / streamoff / uLong: 8 bytes), which is also the byte layout the *)
(* packed structs of cnpz.cpp put in the file.                             *)
(***************************************************************************)
EXTENDS Integers, Sequences, FiniteSets, TLC

(***************************************************************************)
(* Bounds of the model.                                                    *)
(***************************************************************************)
\* How many add_file_from_buffers / add_array calls one archive receives.
MaxCalls == 2

(***************************************************************************)
(* Fixed-width unsigned arithmetic on little-endian byte sequences.        *)
(* Arithmetic is done on 8 bytes (size_t, uLong, streamoff); a narrower    *)
(* type is the low bytes of the result.                                    *)
(***************************************************************************)
\* The little-endian encodings of the natural number n (n < 2^31).
U16(n) == <<n % 256, (n \div 256) % 256>>
U32(n) == <<n % 256, (n \div 256) % 256, (n \div 65536) % 256,
            (n \div 16777216) % 256>>
U64(n) == <<n % 256, (n \div 256) % 256, (n \div 65536) % 256,
            (n \div 16777216) % 256, 0, 0, 0, 0>>

Zero32 == <<0, 0, 0, 0>>
Zero64 == <<0, 0, 0, 0, 0, 0, 0, 0>>

\* Conversion to a narrower unsigned type keeps the low bytes.
Trunc(b, w) == SubSeq(b, 1, w)

\* Conversion of an unsigned value to a wider type.
ZExt(b, w) == [i \in 1..w |-> IF i <= Len(b) THEN b[i] ELSE 0]

\* -1 in w bytes.
Ones(w) == [i \in 1..w |-> 255]

\* The sign bit of a value read as a signed type (streamsize, int).
IsNeg(b) == b[Len(b)] >= 128

\* Conversion of a signed value (two's complement) to a wider type.
SExt(b, w) ==
    [i \in 1..w |-> IF i <= Len(b) THEN b[i] ELSE IF IsNeg(b) THEN 255 ELSE 0]

\* a + b on 8 bytes, wrapping.
Add(a, b) ==
    LET s1 == a[1] + b[1]
        s2 == a[2] + b[2] + (s1 \div 256)
        s3 == a[3] + b[3] + (s2 \div 256)
        s4 == a[4] + b[4] + (s3 \div 256)
        s5 == a[5] + b[5] + (s4 \div 256)
        s6 == a[6] + b[6] + (s5 \div 256)
        s7 == a[7] + b[7] + (s6 \div 256)
        s8 == a[8] + b[8] + (s7 \div 256)
    IN  <<s1 % 256, s2 % 256, s3 % 256, s4 % 256,
          s5 % 256, s6 % 256, s7 % 256, s8 % 256>>

\* a - b on 8 bytes, wrapping (\div rounds down: the borrow is -1).
Sub(a, b) ==
    LET d1 == a[1] - b[1]
        d2 == a[2] - b[2] + (d1 \div 256)
        d3 == a[3] - b[3] + (d2 \div 256)
        d4 == a[4] - b[4] + (d3 \div 256)
        d5 == a[5] - b[5] + (d4 \div 256)
        d6 == a[6] - b[6] + (d5 \div 256)
        d7 == a[7] - b[7] + (d6 \div 256)
        d8 == a[8] - b[8] + (d7 \div 256)
    IN  <<d1 % 256, d2 % 256, d3 % 256, d4 % 256,
          d5 % 256, d6 % 256, d7 % 256, d8 % 256>>

\* a - b on 4 bytes (uInt), wrapping.
Sub32(a, b) == Trunc(Sub(ZExt(a, 8), ZExt(b, 8)), 4)

\* a * m on 8 bytes, m one byte, wrapping.
MulByte(a, m) ==
    LET p1 == a[1] * m
        p2 == a[2] * m + (p1 \div 256)
        p3 == a[3] * m + (p2 \div 256)
        p4 == a[4] * m + (p3 \div 256)
        p5 == a[5] * m + (p4 \div 256)
        p6 == a[6] * m + (p5 \div 256)
        p7 == a[7] * m + (p6 \div 256)
        p8 == a[8] * m + (p7 \div 256)
    IN  <<p1 % 256, p2 % 256, p3 % 256, p4 % 256,
          p5 % 256, p6 % 256, p7 % 256, p8 % 256>>

\* a * 256^k on 8 bytes, wrapping.
ShiftBytes(a, k) == [i \in 1..8 |-> IF i <= k THEN 0 ELSE a[i - k]]

RECURSIVE MulFrom(_, _, _)
\* The sum over the bytes b[j], j <= i <= 8, of a * b[i] * 256^(i-1).
MulFrom(a, b, j) ==
    IF j > 8 THEN Zero64
    ELSE IF b[j] = 0 THEN MulFrom(a, b, j + 1)
    ELSE Add(ShiftBytes(MulByte(a, b[j]), j - 1), MulFrom(a, b, j + 1))

\* a * b on 8 bytes, wrapping.
Mul(a, b) == MulFrom(a, b, 1)

\* Quotient and remainder of the 8-byte a by the small number d (d < 2^22).
DivRem(a, d) ==
    LET c8 == a[8]
        c7 == (c8 % d) * 256 + a[7]
        c6 == (c7 % d) * 256 + a[6]
        c5 == (c6 % d) * 256 + a[5]
        c4 == (c5 % d) * 256 + a[4]
        c3 == (c4 % d) * 256 + a[3]
        c2 == (c3 % d) * 256 + a[2]
        c1 == (c2 % d) * 256 + a[1]
    IN  [q |-> <<c1 \div d, c2 \div d, c3 \div d, c4 \div d,
                 c5 \div d, c6 \div d, c7 \div d, c8 \div d>>,
         r |-> c1 % d]

IsZero(a) == \A i \in 1..Len(a) : a[i] = 0

RECURSIVE LessFrom(_, _, _)
\* a < b as unsigned numbers, decided on the bytes 1..n.
LessFrom(a, b, n) ==
    IF n = 0 THEN FALSE
    ELSE IF a[n] # b[n] THEN a[n] < b[n]
    ELSE LessFrom(a, b, n - 1)

\* a < b and a <= b as unsigned numbers of the same width.
Less(a, b) == LessFrom(a, b, Len(a))
LessEq(a, b) == a = b \/ Less(a, b)

\* 2^32 as a size_t value.
Two32 == <<0, 0, 0, 0, 1, 0, 0, 0>>

(***************************************************************************)
(* std::string.  A string is pad copies of the byte 'x' followed by the    *)
(* bytes of base, so that a name longer than 65535 bytes stays small.      *)
(***************************************************************************)
Str(base) == [pad |-> 0, base |-> base]

\* pad filler bytes followed by base.
Padded(pad, base) == [pad |-> pad, base |-> base]

\* std::string::size
StrSize(s) == s.pad + Len(s.base)

\* The i-th byte of s (1-based).
StrAt(s, i) == IF i <= s.pad THEN 120 ELSE s.base[i - s.pad]

\* std::string::ends_with
ends_with(s, suffix) ==
    /\ Len(suffix) <= StrSize(s)
    /\ \A i \in 1..Len(suffix) :
          StrAt(s, StrSize(s) - Len(suffix) + i) = suffix[i]

\* operator+ (std::string, std::string)
StrCat(s, suffix) == [s EXCEPT !.base = @ \o suffix]

\* ".npy"
NpyExt == <<46, 110, 112, 121>>

filename_with_extension(filename, extension) ==
    IF ends_with(filename, extension) THEN filename
    ELSE StrCat(filename, extension)

(***************************************************************************)
(* The array header (NPY 1.0).                                             *)
(***************************************************************************)
NPY_ARRAY_ALIGN == 64

\* The C++ element types add_array is specialised for.
ElementTypes ==
    {"int8_t", "int16_t", "int32_t", "int64_t", "uint8_t", "uint16_t",
     "uint32_t", "uint64_t", "float", "double", "char",
     "complex_float", "complex_double"}

\* numpy_descr<T>(): the descriptor string of element type T.
numpy_descr(T) ==
    CASE T = "int8_t"         -> <<124, 105, 49>>      \* |i1
      [] T = "int16_t"        -> <<60, 105, 50>>       \* <i2
      [] T = "int32_t"        -> <<60, 105, 52>>       \* <i4
      [] T = "int64_t"        -> <<60, 105, 56>>       \* <i8
      [] T = "uint8_t"        -> <<124, 117, 49>>      \* |u1
      [] T = "uint16_t"       -> <<60, 117, 50>>       \* <u2
      [] T = "uint32_t"       -> <<60, 117, 52>>       \* <u4
      [] T = "uint64_t"       -> <<60, 117, 56>>       \* <u8
      [] T = "float"          -> <<60, 102, 52>>       \* <f4
      [] T = "double"         -> <<60, 102, 56>>       \* <f8
      [] T = "char"           -> <<124, 83, 49>>       \* |S1
      [] T = "complex_float"  -> <<60, 99, 56>>        \* <c8
      [] T = "complex_double" -> <<60, 99, 49, 54>>    \* <c16

\* sizeof(T), as add_array passes it for type_size.
SizeOf(T) ==
    CASE T \in {"int8_t", "uint8_t", "char"}           -> 1
      [] T \in {"int16_t", "uint16_t"}                 -> 2
      [] T \in {"int32_t", "uint32_t", "float"}        -> 4
      [] T \in {"int64_t", "uint64_t", "double", "complex_float"} -> 8
      [] T = "complex_double"                          -> 16

\* struct NpyHeader, packed: magic, major and minor version, header_len.
NpyHeader(header_len) ==
    <<147, 78, 85, 77, 80, 89>> \o <<1>> \o <<0>> \o U16(header_len)

\* sizeof(NpyHeader)
SizeofNpyHeader == Len(NpyHeader(0))

RECURSIVE Digits(_)
Digits(v) ==
    IF IsZero(v) THEN <<>>
    ELSE LET d == DivRem(v, 10) IN Digits(d.q) \o <<48 + d.r>>

\* std::to_string(size_t)
to_string(v) == IF IsZero(v) THEN <<48>> ELSE Digits(v)

RECURSIVE ShapeRest(_, _, _)
\* The loop of create_npy_header over shape[i], lo <= i <= hi: "," then the
\* number, for each i in order (halved, to keep the evaluation shallow).
ShapeRest(shape, lo, hi) ==
    IF lo > hi THEN <<>>
    ELSE IF lo = hi THEN <<44>> \o to_string(shape[lo])
    ELSE LET mid == (lo + hi) \div 2
         IN  ShapeRest(shape, lo, mid) \o ShapeRest(shape, mid + 1, hi)

\* std::string::append(count, ' ')
Spaces(count) == [i \in 1..count |-> 32]

\* std::string::replace(pos, len, bytes), pos counted from 0, same length.
Replace(str, pos, bytes) ==
    [i \in 1..Len(str) |->
        IF i > pos /\ i <= pos + Len(bytes) THEN bytes[i - pos] ELSE str[i]]

\* The header text before padding.
NpyDict(type_descr, shape) ==
    NpyHeader(NPY_ARRAY_ALIGN - SizeofNpyHeader)
    \o <<123, 39, 100, 101, 115, 99, 114, 39, 58, 32, 39>>   \* {'descr': '
    \o type_descr
    \o <<39, 44, 32, 39, 102, 111, 114, 116, 114, 97, 110, 95, 111, 114,
         100, 101, 114, 39, 58, 32, 70, 97, 108, 115, 101, 44, 32, 39, 115,
         104, 97, 112, 101, 39, 58, 32, 40>>   \* ', 'fortran_order': False, 'shape': (
    \o to_string(shape[1])
    \o ShapeRest(shape, 2, Len(shape))
    \o (IF Len(shape) = 1 THEN <<44>> ELSE <<>>)
    \o <<41, 125>>                                           \* )}

\* pad_count: spaces before the newline.
PadCount(size) == NPY_ARRAY_ALIGN - ((size + 1) % NPY_ARRAY_ALIGN)

\* The header padded with spaces and ended by the newline.
PadHeader(dict) == dict \o Spaces(PadCount(Len(dict))) \o <<10>>

\* The header with header_len left as it was first set.
PatchHeaderLen_never(header) == header

\* The header with header_len stored again if the header is over 64 bytes.
PatchHeaderLen(header) ==
    IF Len(header) > NPY_ARRAY_ALIGN
    THEN Replace(header, 8, U16((Len(header) - SizeofNpyHeader) % 65536))
    ELSE header

\* NpzFile::create_npy_header, when its assertions hold.
create_npy_header(type_descr, shape) ==
    PatchHeaderLen(PadHeader(NpyDict(type_descr, shape)))

\* The two assertions of create_npy_header on the size of the header.
HeaderSizeOk(size) == size <= 65535 /\ size % NPY_ARRAY_ALIGN = 0

\* The three assertions of create_npy_header.
npy_header_asserts(type_descr, shape) ==
    /\ Len(shape) > 0
    /\ HeaderSizeOk(Len(PadHeader(NpyDict(type_descr, shape))))

(***************************************************************************)
(* std::ofstream fs_ and std::ostringstream central_dir_.                  *)
(*                                                                         *)
(* The bytes of a stream are the sequence of the writes it accepted.  One  *)
(* write is a segment: k says what the bytes are ("raw": the bytes b;      *)
(* "str": the string Padded(pad, b); "buf": the first n bytes of the       *)
(* caller's buffer id; "z": a raw-deflate stream of n bytes), n is their   *)
(* count as a size_t.                                                      *)
(***************************************************************************)
RawSeg(b) ==
    [k |-> "raw", b |-> b, pad |-> 0, id |-> "", n |-> U64(Len(b))]

StrSeg(s) ==
    [k |-> "str", b |-> s.base, pad |-> s.pad, id |-> "", n |-> U64(StrSize(s))]

\* A pointer argument: nullptr, a caller's buffer, or the bytes of a string.
NullBuf == [k |-> "null", b |-> <<>>, id |-> ""]
CallerBuf(id) == [k |-> "buf", b |-> <<>>, id |-> id]
BytesBuf(b) == [k |-> "raw", b |-> b, id |-> ""]

\* The segment that write(buf, size) puts in a stream.
BufSeg(buf, size) ==
    [k |-> buf.k, b |-> buf.b, pad |-> 0, id |-> buf.id, n |-> size]

RECURSIVE StreamSize(_)
\* The number of bytes of a sequence of segments, as a 64-bit count.
StreamSize(data) ==
    IF data = <<>> THEN Zero64
    ELSE Add(data[1].n, StreamSize(Tail(data)))

\* std::ostream::write on fs_ = [open, bad, data, pos, strict]: the file is
\* open, failbit or badbit is set, the bytes written, the file position.  A
\* stream whose failbit or badbit is set writes nothing.  A negative count (a
\* size_t of 2^63 or more read as std::streamsize) inserts nothing; what it
\* does to the state is the library's choice: one that compares the number
\* of bytes put with the count sets badbit (strict), one that skips counts
\* that are not positive leaves the stream as it is.  A write of one byte or
\* more once the file is closed sets badbit.
fs_write(s, seg) ==
    IF s.bad THEN s
    ELSE IF IsNeg(seg.n) THEN [s EXCEPT !.bad = s.strict]
    ELSE IF ~s.open
         THEN IF IsZero(seg.n) THEN s ELSE [s EXCEPT !.bad = TRUE]
    ELSE [s EXCEPT !.data = Append(@, seg), !.pos = Add(@, seg.n)]

\* One write of a whole buffer that is itself made of several segments.
fs_write_all(s, segs) ==
    IF s.bad THEN s
    ELSE IF ~s.open
         THEN IF IsZero(StreamSize(segs)) THEN s ELSE [s EXCEPT !.bad = TRUE]
    ELSE [s EXCEPT !.data = @ \o segs, !.pos = Add(@, StreamSize(segs))]

\* std::ostream::tellp on fs_, as a streamoff: -1 when the stream has failed
\* or the file is closed.
tellp(s) == IF s.bad \/ ~s.open THEN Ones(8) ELSE s.pos

\* A close that leaves the file open.
fs_close_left_open(s) == s

\* std::ofstream::close: closing a file that is not open sets failbit.
fs_close(s) ==
    IF s.open THEN [s EXCEPT !.open = FALSE] ELSE [s EXCEPT !.bad = TRUE]

(***************************************************************************)
(* The ZIP records (packed, little-endian).                                *)
(***************************************************************************)
ZIP_LOCAL_FILE_HEADER_SIG == 67324752
ZIP_CENTRAL_DIRECTORY_FILE_HEADER_SIG == 33639248
ZIP_END_OF_CENTRAL_DIRECTORY_SIG == 101010256
VERSION_MADE_BY == 20

\* enum class CompressionMethod
STORED == 0
DEFLATE == 8

\* The local header, were filename_length a uint32_t.
ZipLocalFileHeader_wide_length(h) ==
    U16(VERSION_MADE_BY) \o U16(0) \o U16(h.compression_method)
    \o U16(h.last_mod_file_time) \o U16(h.last_mod_file_date)
    \o h.crc32 \o h.compressed_size \o h.uncompressed_size
    \o U32(h.filename_length) \o U16(0)

\* struct ZipLocalFileHeader: h holds its fields that are not constant.
ZipLocalFileHeader(h) ==
    U16(VERSION_MADE_BY) \o U16(0) \o U16(h.compression_method)
    \o U16(h.last_mod_file_time) \o U16(h.last_mod_file_date)
    \o h.crc32 \o h.compressed_size \o h.uncompressed_size
    \o U16(h.filename_length % 65536) \o U16(0)

\* struct ZipCentralDirectoryFileHeaderSuffix
ZipCentralDirectoryFileHeaderSuffix(relative_offset_of_local_header) ==
    U16(0) \o U16(0) \o U16(0) \o Zero32 \o relative_offset_of_local_header

\* struct ZipEndOfCentralDirectoryRecord
ZipEndOfCentralDirectoryRecord(num_entries, size, offset) ==
    U32(ZIP_END_OF_CENTRAL_DIRECTORY_SIG) \o U16(0) \o U16(0)
    \o U16(num_entries) \o U16(num_entries) \o size \o offset \o U16(0)

\* write2, write4
write2(value) == RawSeg(U16(value))
write4(value) == RawSeg(U32(value))

\* The MS-DOS time and date of a broken-down UTC time (struct tm).
dos_time(tm) == ((tm.tm_hour * 2048) + (tm.tm_min * 32) + (tm.tm_sec \div 2)) % 65536
dos_date(tm) == (((tm.tm_year - 80) * 512) + ((tm.tm_mon + 1) * 32) + tm.tm_mday) % 65536

(***************************************************************************)
(* zlib, as cnpz uses it: a raw-deflate session.                           *)
(***************************************************************************)
\* sourceLen >> 12, >> 14 and >> 25 of an uLong.
Shr12(a) == DivRem(a, 4096).q
Shr14(a) == DivRem(a, 16384).q
Shr25(a) == DivRem(DivRem(a, 4096).q, 8192).q

\* zlib's compressBound(sourceLen).
compressBound(sourceLen) ==
    Add(Add(Add(Add(sourceLen, Shr12(sourceLen)), Shr14(sourceLen)),
            Shr25(sourceLen)), U64(13))

\* A z_stream after deflateInit2.
deflateInit2 ==
    [avail_in |-> Zero32, avail_out |-> Zero32,
     total_in |-> Zero64, total_out |-> Zero64, state |-> "ready"]

\* deflate with room \in BOOLEAN: whether the output space takes all the
\* encoder has to emit.  It takes all its input unless the space runs out.
deflate_step(strm, finish, out, used, room) ==
    [strm |->
        [avail_in  |-> Sub32(strm.avail_in, used),
         avail_out |-> Sub32(strm.avail_out, Trunc(out, 4)),
         total_in  |-> Add(strm.total_in, ZExt(used, 8)),
         total_out |-> Add(strm.total_out, out),
         state     |-> IF finish /\ room THEN "finished" ELSE "streaming"],
     ret |->
        IF finish THEN (IF room THEN "Z_STREAM_END" ELSE "Z_OK")
        ELSE IF ~IsZero(used) \/ ~IsZero(out) THEN "Z_OK"
        ELSE "Z_BUF_ERROR"]

\* zlib's deflate.  want is the number of bytes the encoder has to emit in
\* this call: all it holds when finishing, what it chooses to otherwise.
deflate(strm, finish, want) ==
    IF LessEq(want, ZExt(strm.avail_out, 8))
    THEN deflate_step(strm, finish, want, strm.avail_in, TRUE)
    ELSE deflate_step(strm, finish, ZExt(strm.avail_out, 8), Zero32, FALSE)

\* The length of the finished raw-deflate stream of n input bytes: 2 bytes
\* for no input, else from 3 bytes ("packed") to stored blocks ("stored").
StreamLength(n, mode) ==
    IF IsZero(n) THEN U64(2)
    ELSE IF mode = "packed" THEN U64(3)
    ELSE Add(n, U64(5))

\* What the encoder has to emit in a call on strm, its input set: all that
\* is left of the stream when finishing; before, nothing if it packs the
\* input, the input as it comes if it stores it.
Want(strm, finish, mode) ==
    IF finish
    THEN Sub(StreamLength(Add(strm.total_in, ZExt(strm.avail_in, 8)), mode),
             strm.total_out)
    ELSE IF mode = "stored" THEN ZExt(strm.avail_in, 8) ELSE Zero64

\* The outcome of compress_chunk: ok says its assertion held.
chunk_result(finish, len, r) ==
    [strm   |-> r.strm,
     finish |-> finish,
     len    |-> len,
     ret    |-> r.ret,
     ok     |-> IF finish THEN r.ret = "Z_STREAM_END"
                ELSE r.ret \in {"Z_OK", "Z_BUF_ERROR"}]

\* compress_chunk once next_in, avail_in, next_out and avail_out are set.
chunk_run(strm, finish, mode) ==
    chunk_result(finish, strm.avail_in, deflate(strm, finish, Want(strm, finish, mode)))

\* compress_chunk: one call of deflate.
compress_chunk(strm, source_len, dest_len, finish, mode) ==
    chunk_run([strm EXCEPT !.avail_out = Trunc(dest_len, 4),
                           !.avail_in  = Trunc(source_len, 4)],
              finish, mode)

(***************************************************************************)
(* NpzFile.                                                                *)
(***************************************************************************)
\* The name check, were it to let a name of 65536 bytes through.
NameTooLong_off_by_one(name) == StrSize(name) > 65536

\* The name check of add_file_from_buffers: name.size() > 0xffff.
NameTooLong(name) == StrSize(name) > 65535

\* A first compress_chunk call that always asks for Z_FINISH.
FirstFinish_always(buf1) == TRUE

\* The finish flag of the first compress_chunk call: !buf1.
FirstFinish(buf1) == buf1.k = "null"

\* A compress_chunk call as the session's log keeps it.
LogOf(c) == [finish |-> c.finish, len |-> c.len, ret |-> c.ret]

\* The end of the DEFLATE branch: strm after the last call; ok0 says the
\* assertions up to there held.
CompressEnd(total_size, bufsize, calls, strm, ok0) ==
    [calls           |-> calls,
     total_in        |-> strm.total_in,
     total_out       |-> strm.total_out,
     bufsize         |-> bufsize,
     compressed_size |-> strm.total_out,
     ok              |-> ok0 /\ strm.total_in = ZExt(total_size, 8)]

\* The second compress_chunk call, made if buf1 is not null.
CompressSecond(total_size, bufsize, c0, c1) ==
    CompressEnd(total_size, bufsize, <<LogOf(c0), LogOf(c1)>>, c1.strm, c1.ok)

\* After the first compress_chunk call c0.
CompressFirst(buf1, size1, total_size, mode, bufsize, c0) ==
    IF ~(c0.ok /\ IsZero(c0.strm.avail_in))
    THEN CompressEnd(total_size, bufsize, <<LogOf(c0)>>, c0.strm, FALSE)
    ELSE IF buf1.k # "null"
    THEN CompressSecond(total_size, bufsize, c0,
                        compress_chunk(c0.strm, size1,
                                       Sub(bufsize, c0.strm.total_out), TRUE, mode))
    ELSE CompressEnd(total_size, bufsize, <<LogOf(c0)>>, c0.strm, TRUE)

\* With compressed sized to bufsize bytes.
CompressSized(size0, buf1, size1, total_size, mode, bufsize) ==
    CompressFirst(buf1, size1, total_size, mode, bufsize,
                  compress_chunk(deflateInit2, size0, bufsize,
                                 FirstFinish(buf1), mode))

\* The DEFLATE branch of add_file_from_buffers.  ok says that every
\* assertion on the way held; calls are the compress_chunk calls made.
Compress(size0, buf1, size1, total_size, mode) ==
    CompressSized(size0, buf1, size1, total_size, mode,
                  compressBound(ZExt(total_size, 8)))

\* No compressor session (the STORED branch).
NoCompress ==
    [calls |-> <<>>, total_in |-> Zero64, total_out |-> Zero64,
     bufsize |-> Zero64, compressed_size |-> Zero64, ok |-> TRUE]

\* The payload of an entry as written to fs.
WritePayload(fs, buf0, size0, buf1, size1, compression, z) ==
    IF compression = DEFLATE
    THEN fs_write(fs, [k |-> "z", b |-> <<>>, pad |-> 0, id |-> "",
                       n |-> z.compressed_size])
    ELSE IF buf1.k # "null"
    THEN fs_write(fs_write(fs, BufSeg(buf0, size0)), BufSeg(buf1, size1))
    ELSE fs_write(fs, BufSeg(buf0, size0))

\* The local record of an entry as written to fs_.
WriteLocal(fs, local_header, name, buf0, size0, buf1, size1, compression, z) ==
    WritePayload(
        fs_write(fs_write(fs_write(fs, write4(ZIP_LOCAL_FILE_HEADER_SIG)),
                          RawSeg(ZipLocalFileHeader(local_header))),
                 StrSeg(name)),
        buf0, size0, buf1, size1, compression, z)

\* The central-directory record of an entry as appended to central_dir_.
WriteCentral(cd, local_header, name, local_header_offset) ==
    cd \o << write4(ZIP_CENTRAL_DIRECTORY_FILE_HEADER_SIG),
             write2(VERSION_MADE_BY),
             RawSeg(ZipLocalFileHeader(local_header)),
             RawSeg(ZipCentralDirectoryFileHeaderSuffix(local_header_offset)),
             StrSeg(name) >>

\* num_entries_++ on a uint16_t.
Incr(num_entries) == (num_entries + 1) % 65536

\* A call that wrote nothing: it threw, or died on an assertion.
NoEntry(self, n, raised, aborted, z) ==
    [fs |-> self.fs, cd |-> self.cd, n |-> n, raised |-> raised,
     aborted |-> aborted, ret |-> Zero64, z |-> z]

\* The local header of add_file_from_buffers, all its fields set.
LocalHeader(name, tm, compression, total_size, z) ==
    [compression_method |-> compression,
     last_mod_file_time |-> dos_time(tm),
     last_mod_file_date |-> dos_date(tm),
     crc32              |-> Zero32,
     compressed_size    |-> IF compression = DEFLATE
                            THEN Trunc(z.compressed_size, 4)
                            ELSE total_size,
     uncompressed_size  |-> total_size,
     filename_length    |-> StrSize(name)]

\* The writes of add_file_from_buffers and its return value.
WriteEntry(self, name, buf0, size0, buf1, size1, compression, z, local_header) ==
    [fs      |-> WriteLocal(self.fs, local_header, name, buf0, size0,
                            buf1, size1, compression, z),
     cd      |-> WriteCentral(self.cd, local_header, name,
                              Trunc(tellp(self.fs), 4)),
     n       |-> Incr(self.n),
     raised  |-> FALSE,
     aborted |-> FALSE,
     ret     |-> ZExt(local_header.compressed_size, 8),
     z       |-> z]

\* add_file_from_buffers once the payload is compressed (z).
AfterCompress(self, name, buf0, size0, buf1, size1, tm, compression, total_size, z) ==
    IF ~z.ok THEN NoEntry(self, Incr(self.n), FALSE, TRUE, z)
    ELSE WriteEntry(self, name, buf0, size0, buf1, size1, compression, z,
                    LocalHeader(name, tm, compression, total_size, z))

\* add_file_from_buffers once total_size is computed.
AfterSizes(self, name, buf0, size0, buf1, size1, tm, compression, mode, total_size) ==
    AfterCompress(self, name, buf0, size0, buf1, size1, tm, compression,
                  total_size,
                  IF compression = DEFLATE
                  THEN Compress(size0, buf1, size1, total_size, mode)
                  ELSE NoCompress)

\* total_size: size0 + (buf1 ? size1 : 0), stored in a uint32_t.
TotalSize(size0, buf1, size1) ==
    Trunc(Add(size0, IF buf1.k # "null" THEN size1 ELSE Zero64), 4)

\* NpzFile::add_file_from_buffers on self = [fs, cd, n].  The result holds
\* the object after the call, whether the call threw (raised) or died on an
\* assertion (aborted), and the value returned.
add_file_from_buffers(self, name, buf0, size0, buf1, size1, tm, compression, mode) ==
    IF NameTooLong(name) THEN NoEntry(self, Incr(self.n), TRUE, FALSE, NoCompress)
    ELSE AfterSizes(self, name, buf0, size0, buf1, size1, tm, compression, mode,
                    TotalSize(size0, buf1, size1))

RECURSIVE Accumulate(_, _, _)
\* std::accumulate(shape.begin(), shape.end(), 1, std::multiplies<size_t>()):
\* the accumulator has the type of the initial value 1, an int; each step
\* multiplies as size_t and stores the product back into the int.
Accumulate(shape, i, acc) ==
    IF i > Len(shape) THEN acc
    ELSE Accumulate(shape, i + 1, Trunc(Mul(SExt(acc, 8), shape[i]), 4))

\* data_size of add_array_of_type: the int product times type_size.
DataSize(shape, type_size) ==
    Mul(SExt(Accumulate(shape, 1, U32(1)), 8), U64(type_size))

\* add_array_of_type once the header is built.
AddArrayEntry(self, name, npy_header, data, data_size, tm) ==
    add_file_from_buffers(self, filename_with_extension(name, NpyExt),
                          BytesBuf(npy_header), U64(Len(npy_header)),
                          data, data_size, tm, STORED,
                          "stored")

\* NpzFile::add_array_of_type
add_array_of_type(self, name, type_descr, type_size, data, shape, tm) ==
    IF ~npy_header_asserts(type_descr, shape)
    THEN NoEntry(self, self.n, FALSE, TRUE, NoCompress)
    ELSE AddArrayEntry(self, name, create_npy_header(type_descr, shape), data,
                       DataSize(shape, type_size), tm)

\* The end-of-directory record of close.
Eocd(cd, n, central_dir_offset) ==
    RawSeg(ZipEndOfCentralDirectoryRecord(n, Trunc(StreamSize(cd), 4),
                                          central_dir_offset))

\* close once central_dir_offset is read: the two writes, and fs_.close().
CloseWrites(fs, cd, eocd) == fs_close(fs_write(fs_write_all(fs, cd), eocd))

\* A close that reads the position after it has written the directory.
close_offset_after_directory(fs, cd, n) ==
    CloseWrites(fs, cd, Eocd(cd, n, Trunc(tellp(fs_write_all(fs, cd)), 4)))

\* NpzFile::close on fs (fs_), with the accumulator cd and the entry count n.
close(fs, cd, n) == CloseWrites(fs, cd, Eocd(cd, n, Trunc(tellp(fs), 4)))

(***************************************************************************)
(* The state: one NpzFile object, from its construction to its end.        *)
(***************************************************************************)
VARIABLES
    fs_,            \* std::ofstream fs_: [open, bad, data, pos, strict]
    central_dir_,   \* std::ostringstream central_dir_: its segments
    num_entries_,   \* uint16_t num_entries_
    phase,          \* "live", "destroyed" (~NpzFile ran), "aborted" (assert)
    hist,           \* the add calls made so far, with what each returned
    hdr_type,       \* the element type given to create_npy_header
    hdr_shape,      \* the shape given to create_npy_header
    hdr             \* the header create_npy_header returned (<<>> before)

vars == <<fs_, central_dir_, num_entries_, phase, hist, hdr_type, hdr_shape, hdr>>

(***************************************************************************)
(* The arguments the calls are made with.                                  *)
(***************************************************************************)
\* "bubble.txt"
BubbleTxt == Str(<<98, 117, 98, 98, 108, 101, 46, 116, 120, 116>>)

\* A name of 65536 bytes, one more than a ZIP name may have.
LongName == Padded(65536, <<>>)

EntryNames == {BubbleTxt, LongName}

\* "m" and "m.npy"
NameM == Str(<<109>>)
NameMNpy == Str(<<109, 46, 110, 112, 121>>)

\* size0: the 15 bytes of "Words are loud\n", and 4 GiB.
FirstSizes == {U64(15), Two32}

\* buf1 and size1: nullptr with a stated size, or a second chunk.
SecondChunks ==
    {[buf |-> NullBuf, size |-> U64(7)],
     [buf |-> CallerBuf("B"), size |-> U64(1)]}

\* What the encoder does with its input (see StreamLength, Want).
Modes == {"packed", "stored"}

\* The broken-down time gmtime returns for the timestamp.
Times == {[tm_hour |-> 12, tm_min |-> 34, tm_sec |-> 57,
           tm_year |-> 124, tm_mon |-> 0, tm_mday |-> 31]}

\* The arrays added, by name, element type and shape: 3 x 2 floats (under
\* either name), 3 x 2 bytes, an empty array, 2^31 bytes, 2^32 bytes.
ArrayArgs ==
    {[name |-> NameM,    T |-> "float",  shape |-> <<U64(3), U64(2)>>],
     [name |-> NameMNpy, T |-> "float",  shape |-> <<U64(3), U64(2)>>],
     [name |-> NameMNpy, T |-> "int8_t", shape |-> <<U64(3), U64(2)>>],
     [name |-> NameM,    T |-> "int8_t", shape |-> <<Zero64, U64(3)>>],
     [name |-> NameM,    T |-> "int8_t", shape |-> <<U64(65536), U64(32768)>>],
     [name |-> NameMNpy, T |-> "int8_t", shape |-> <<U64(65536), U64(65536)>>]}

RECURSIVE Product(_)
\* The number of elements of a shape, as a size_t.
Product(shape) ==
    IF shape = <<>> THEN U64(1) ELSE Mul(shape[1], Product(Tail(shape)))

(***************************************************************************)
(* The operations.                                                         *)
(***************************************************************************)
Self == [fs |-> fs_, cd |-> central_dir_, n |-> num_entries_]

\* What hist keeps of a call: of one that threw, its name alone.
Recorded(r, call) ==
    IF r.raised
    THEN [call EXCEPT !.size0 = Zero64, !.buf1 = "null", !.size1 = Zero64,
                      !.compression = STORED, !.payload = Zero64]
    ELSE call

\* The object after a call that returned r, and the record of the call:
\* the state of fs_ when it was made (open, good), the number of segments
\* of fs_ and central_dir_ then (at, cdat), the true size of the file before
\* and after, and the outcome.
Returned(r, call) ==
    /\ fs_' = r.fs
    /\ central_dir_' = r.cd
    /\ num_entries_' = r.n
    /\ phase' = IF r.aborted THEN "aborted" ELSE phase
    /\ hist' = Append(hist,
                      [Recorded(r, call) EXCEPT
                           !.open    = fs_.open,
                           !.good    = fs_.open /\ ~fs_.bad,
                           !.at      = Len(fs_.data),
                           !.cdat    = Len(central_dir_),
                           !.raised  = r.raised,
                           !.aborted = r.aborted,
                           !.ret     = r.ret,
                           !.before  = StreamSize(fs_.data),
                           !.after   = StreamSize(r.fs.data),
                           !.z       = r.z])
    /\ UNCHANGED <<hdr_type, hdr_shape, hdr>>

\* A call as made: op is "entry" (add_file_from_buffers) or "array"
\* (add_array); payload is the true number of bytes of its chunks (of its
\* array data), hdr_len the length of the array header.
Call(op, name, size0, buf1, size1, compression, payload, hdr_len) ==
    [op |-> op, name |-> name, size0 |-> size0, buf1 |-> buf1.k,
     size1 |-> size1, compression |-> compression, payload |-> payload,
     hdr_len |-> hdr_len, open |-> TRUE, good |-> TRUE, at |-> 0, cdat |-> 0,
     raised |-> FALSE, aborted |-> FALSE,
     ret |-> Zero64, before |-> Zero64, after |-> Zero64, z |-> NoCompress]

\* NpzFile::NpzFile: the file is open and empty, nothing is recorded.  The
\* program is built with one standard library or the other (see fs_write).
Init ==
    /\ fs_ \in {[open |-> TRUE, bad |-> FALSE, data |-> <<>>, pos |-> Zero64,
                 strict |-> b] : b \in BOOLEAN}
    /\ central_dir_ = <<>>
    /\ num_entries_ = 0
    /\ phase = "live"
    /\ hist = <<>>
    /\ hdr_type = "int8_t"
    /\ hdr_shape = <<U64(1)>>
    /\ hdr = <<>>

\* A call of add_file_from_buffers (add_file is the call with buf1 null).
AddEntry ==
    /\ phase = "live"
    /\ Len(hist) < MaxCalls
    /\ \E name \in EntryNames, size0 \in FirstSizes, second \in SecondChunks,
          tm \in Times, compression \in {STORED, DEFLATE}, mode \in Modes :
          /\ compression = STORED => mode = "stored"
          /\ Returned(
                add_file_from_buffers(Self, name, CallerBuf("A"), size0,
                                      second.buf, second.size, tm, compression,
                                      mode),
                Call("entry", name, size0, second.buf, second.size, compression,
                     Add(size0, IF second.buf.k = "null" THEN Zero64
                                ELSE second.size),
                     0))

\* A call of add_array<T>.
AddArray ==
    /\ phase = "live"
    /\ Len(hist) < MaxCalls
    /\ \E a \in ArrayArgs, tm \in Times :
          Returned(
             add_array_of_type(Self, a.name, numpy_descr(a.T), SizeOf(a.T),
                               CallerBuf("D"), a.shape, tm),
             Call("array", a.name, Zero64, CallerBuf("D"), Zero64, STORED,
                  Mul(Product(a.shape), U64(SizeOf(a.T))),
                  Len(create_npy_header(numpy_descr(a.T), a.shape))))

\* An explicit call of NpzFile::close.
Close ==
    /\ phase = "live"
    /\ fs_' = close(fs_, central_dir_, num_entries_)
    /\ UNCHANGED <<central_dir_, num_entries_, phase, hist, hdr_type, hdr_shape, hdr>>

\* NpzFile::~NpzFile: close, and the object is gone.
Destroy ==
    /\ phase = "live"
    /\ fs_' = close(fs_, central_dir_, num_entries_)
    /\ phase' = "destroyed"
    /\ UNCHANGED <<central_dir_, num_entries_, hist, hdr_type, hdr_shape, hdr>>

Next == AddEntry \/ AddArray \/ Close \/ Destroy

Spec == Init /\ [][Next]_vars

(***************************************************************************)
(* create_npy_header on its own: every element type, and shapes of up to   *)
(* MaxDims dimensions, one that fills a 64-byte block to the last byte,    *)
(* and one of LongDims dimensions.                                         *)
(***************************************************************************)
MaxDims == 2
LongDims == 122

\* 0, 3, 2^32 and 2^64 - 1.
HdrDims == {Zero64, U64(3), Two32, Ones(8)}

HdrShapes ==
    UNION {[1..k -> HdrDims] : k \in 1..MaxDims}
    \cup {<<Ones(8), Ones(8), Ones(8), U64(1)>>}
    \cup {[i \in 1..LongDims |-> Ones(8)]}

InitHdr ==
    /\ fs_ = [open |-> TRUE, bad |-> FALSE, data |-> <<>>, pos |-> Zero64,
              strict |-> TRUE]
    /\ central_dir_ = <<>>
    /\ num_entries_ = 0
    /\ phase = "live"
    /\ hist = <<>>
    /\ hdr_type \in ElementTypes
    /\ hdr_shape \in HdrShapes
    /\ hdr = <<>>

\* A call of create_npy_header whose assertions hold.
BuildHeader ==
    /\ hdr = <<>>
    /\ npy_header_asserts(numpy_descr(hdr_type), hdr_shape)
    /\ hdr' = create_npy_header(numpy_descr(hdr_type), hdr_shape)
    /\ UNCHANGED <<fs_, central_dir_, num_entries_, phase, hist, hdr_type, hdr_shape>>

NextHdr == BuildHeader

SpecHdr == InitHdr /\ [][NextHdr]_vars

(***************************************************************************)
(* Reading the file and the accumulator back.                              *)
(***************************************************************************)
\* The w bytes that follow the first off bytes of a record.
Field(bytes, off, w) == SubSeq(bytes, off + 1, off + w)

\* The byte position at which segment i of a stream begins.
PositionOf(data, i) == StreamSize(SubSeq(data, 1, i - 1))

\* A call that neither threw nor died on an assertion.
Accepted(e) == ~e.raised /\ ~e.aborted

\* An end-of-directory record: 22 bytes that begin with its signature.
IsEocd(seg) ==
    /\ seg.k = "raw"
    /\ Len(seg.b) = 22
    /\ Field(seg.b, 0, 4) = U32(ZIP_END_OF_CENTRAL_DIRECTORY_SIG)

\* The number of end-of-directory records in a stream.
EocdCount(data) == Cardinality({i \in 1..Len(data) : IsEocd(data[i])})

\* The segments of a stream that begin a central-directory record.
CdSigs(data) ==
    {i \in 1..Len(data) : data[i] = RawSeg(U32(ZIP_CENTRAL_DIRECTORY_FILE_HEADER_SIG))}

\* The segments j+1 .. j+5 of cd are one whole central-directory record.
IsCdRecord(cd, j) ==
    /\ Len(cd) >= j + 5
    /\ cd[j + 1] = RawSeg(U32(ZIP_CENTRAL_DIRECTORY_FILE_HEADER_SIG))
    /\ cd[j + 2] = RawSeg(U16(VERSION_MADE_BY))
    /\ cd[j + 3].k = "raw" /\ Len(cd[j + 3].b) = 26
    /\ cd[j + 4].k = "raw" /\ Len(cd[j + 4].b) = 14
    /\ cd[j + 5].k = "str"
    /\ U16(StrSize([pad |-> cd[j + 5].pad, base |-> cd[j + 5].b])) = Field(cd[j + 3].b, 22, 2)

\* Every call so far was made while the file was open.
AllOpen == \A i \in 1..Len(hist) : hist[i].open

(***************************************************************************)
(* The claims.                                                             *)
(***************************************************************************)
\* C1, for entries that begin below 4 GiB (where the position fits the
\* 32-bit field): the central-directory record of every entry added to an
\* open archive carries, as relative_offset_of_local_header, the byte
\* position in the file at which that entry's local-header signature begins.
C1_OffsetIsPosition ==
    \A i \in 1..Len(hist) :
        (Accepted(hist[i]) /\ hist[i].open /\ Less(hist[i].before, Two32)) =>
            /\ IsCdRecord(central_dir_, hist[i].cdat)
            /\ Len(fs_.data) > hist[i].at
            /\ fs_.data[hist[i].at + 1] = RawSeg(U32(ZIP_LOCAL_FILE_HEADER_SIG))
            /\ ZExt(Field(central_dir_[hist[i].cdat + 4].b, 10, 4), 8)
                   = PositionOf(fs_.data, hist[i].at + 1)

\* C2: the accumulator holds whole central-directory records only, one per
\* entry in entry order, and the entry count, num_files() and the two counts
\* of the end-of-directory record alike, is the number of those records,
\* also after calls rejected for a name of more than 65535 bytes.
C2_CountIsRecords ==
    /\ Len(central_dir_) % 5 = 0
    /\ \A j \in 0..((Len(central_dir_) \div 5) - 1) : IsCdRecord(central_dir_, 5 * j)
    /\ \A i \in 1..Len(hist) :
          (Accepted(hist[i]) /\ hist[i].op = "entry") =>
              /\ Len(central_dir_) >= hist[i].cdat + 5
              /\ central_dir_[hist[i].cdat + 5] = StrSeg(hist[i].name)
    /\ num_entries_ = Len(central_dir_) \div 5
    /\ (AllOpen /\ fs_.data # <<>> /\ IsEocd(fs_.data[Len(fs_.data)])) =>
          /\ Field(fs_.data[Len(fs_.data)].b, 8, 2) = U16(Len(central_dir_) \div 5)
          /\ Field(fs_.data[Len(fs_.data)].b, 10, 2) = U16(Len(central_dir_) \div 5)

\* C3: a call of add_file_from_buffers with a name of more than 65535 bytes
\* throws, and leaves the file (its bytes, its position, its state) and the
\* accumulator as they were.
C3_LongNameWritesNothing ==
    [][(/\ Len(hist') = Len(hist) + 1
        /\ hist'[Len(hist')].op = "entry"
        /\ StrSize(hist'[Len(hist')].name) > 65535)
       => (/\ hist'[Len(hist')].raised
           /\ fs_' = fs_
           /\ central_dir_' = central_dir_)]_vars

\* A name of 65536 bytes was rejected after bytes were written to the file.
C3_Witness ==
    \E i \in 1..Len(hist) :
        /\ hist[i].raised
        /\ StrSize(hist[i].name) = 65536
        /\ ~IsZero(hist[i].before)
        /\ hist[i].after = hist[i].before

\* C4: once the file is closed, a further close (explicit, or the
\* destructor's) leaves its bytes as they are and the file closed; the close
\* of an open file in good state writes the central directory and one
\* end-of-directory record, so that the file never holds more than one; and
\* the destructor leaves the file closed whether close was called or not.
C4_CloseIdempotent ==
    [][/\ (~fs_.open /\ hist' = hist) => (fs_'.data = fs_.data /\ ~fs_'.open)
       /\ (fs_.open /\ ~fs_.bad /\ ~fs_'.open) =>
             /\ fs_'.data = fs_.data \o central_dir_ \o <<fs_'.data[Len(fs_'.data)]>>
             /\ IsEocd(fs_'.data[Len(fs_'.data)])
             /\ EocdCount(fs_'.data) = 1
             /\ Cardinality(CdSigs(fs_'.data)) = Len(central_dir_) \div 5
       /\ EocdCount(fs_'.data) <= 1
       /\ phase' = "destroyed" => ~fs_'.open]_vars

\* An archive of one entry was closed, closed again and destroyed: the
\* second close set failbit, and the file holds one end-of-directory record.
C4_Witness ==
    /\ phase = "destroyed"
    /\ ~fs_.open
    /\ fs_.bad
    /\ Len(hist) = 1 /\ hist[1].good /\ Accepted(hist[1])
    /\ EocdCount(fs_.data) = 1
    /\ IsEocd(fs_.data[Len(fs_.data)])

\* C5: in the end-of-directory record that close writes to an open file in
\* good state, central_directory_size is the byte length of the accumulator
\* and central_directory_offset the position of the file before the
\* accumulator was written, each as its 32-bit field holds it (modulo 2^32:
\* the value itself below 4 GiB); the accumulator is written first, the
\* record after it.
C5_DirectoryFields ==
    [][(fs_.open /\ ~fs_.bad /\ ~fs_'.open) =>
          /\ Len(fs_'.data) = Len(fs_.data) + Len(central_dir_) + 1
          /\ SubSeq(fs_'.data, 1, Len(fs_.data)) = fs_.data
          /\ SubSeq(fs_'.data, Len(fs_.data) + 1, Len(fs_'.data) - 1) = central_dir_
          /\ IsEocd(fs_'.data[Len(fs_'.data)])
          /\ Field(fs_'.data[Len(fs_'.data)].b, 12, 4)
                 = Trunc(StreamSize(central_dir_), 4)
          /\ Field(fs_'.data[Len(fs_'.data)].b, 16, 4)
                 = Trunc(StreamSize(fs_.data), 4)
          /\ Less(StreamSize(fs_.data), Two32) =>
                ZExt(Field(fs_'.data[Len(fs_'.data)].b, 16, 4), 8)
                    = StreamSize(fs_.data)]_vars

\* C5 as stated: central_directory_size is the length of the accumulator and
\* central_directory_offset the position of the file before the accumulator
\* was written, whatever that position.
C5_AsStated ==
    [][(fs_.open /\ ~fs_.bad /\ ~fs_'.open) =>
          /\ IsEocd(fs_'.data[Len(fs_'.data)])
          /\ ZExt(Field(fs_'.data[Len(fs_'.data)].b, 12, 4), 8)
                 = StreamSize(central_dir_)
          /\ ZExt(Field(fs_'.data[Len(fs_'.data)].b, 16, 4), 8)
                 = StreamSize(fs_.data)]_vars

\* An archive whose local records take 4 GiB or more was closed.
C5_Witness ==
    /\ AllOpen
    /\ central_dir_ # <<>>
    /\ Len(fs_.data) > Len(central_dir_) + 1
    /\ IsEocd(fs_.data[Len(fs_.data)])
    /\ ~Less(PositionOf(fs_.data, Len(fs_.data) - Len(central_dir_)), Two32)

\* Every call so far was add_file_from_buffers with the stored method, made
\* while the file was open and in good state.
StoredOnly ==
    \A i \in 1..Len(hist) :
        hist[i].op = "entry" /\ hist[i].compression = STORED /\ hist[i].good

\* The file ends with an end-of-directory record.
Closed == fs_.data # <<>> /\ IsEocd(fs_.data[Len(fs_.data)])

RECURSIVE RecordsSize(_, _)
\* sum(30 + n_i + p_i) + sum(46 + n_i) over the entries i .. Len(hist).
RecordsSize(h, i) ==
    IF i > Len(h) THEN Zero64
    ELSE IF ~Accepted(h[i]) THEN RecordsSize(h, i + 1)
    ELSE Add(Add(U64(30 + StrSize(h[i].name) + 46 + StrSize(h[i].name)),
                 h[i].payload),
             RecordsSize(h, i + 1))

\* The content of a stored entry stands at its local header's position plus
\* 30 plus the length of its name: the first chunk, then the second if any.
ContentInPlace(e) ==
    /\ Len(fs_.data) >= e.at + 5
    /\ fs_.data[e.at + 1] = RawSeg(U32(ZIP_LOCAL_FILE_HEADER_SIG))
    /\ fs_.data[e.at + 3] = StrSeg(e.name)
    /\ fs_.data[e.at + 4] = BufSeg(CallerBuf("A"), e.size0)
    /\ PositionOf(fs_.data, e.at + 4)
           = Add(PositionOf(fs_.data, e.at + 1), U64(30 + StrSize(e.name)))
    /\ IF e.buf1 = "null"
       THEN /\ fs_.data[e.at + 5].k = "raw"
            /\ PositionOf(fs_.data, e.at + 5)
                   = Add(PositionOf(fs_.data, e.at + 4), e.payload)
       ELSE /\ fs_.data[e.at + 5] = BufSeg(CallerBuf("B"), e.size1)
            /\ PositionOf(fs_.data, e.at + 5)
                   = Add(PositionOf(fs_.data, e.at + 4), e.size0)
            /\ Len(fs_.data) >= e.at + 6
            /\ fs_.data[e.at + 6].k = "raw"
            /\ PositionOf(fs_.data, e.at + 6)
                   = Add(PositionOf(fs_.data, e.at + 4), e.payload)

\* C6: a new archive to which entries were added with the stored method and
\* which was then closed consists of the local records in entry order, the
\* central directory and the trailer; its size is sum(30 + n_i + p_i) +
\* sum(46 + n_i) + 22, and the content of entry i stands at the position of
\* its local header plus 30 + n_i.  "bubble.txt" with 15 bytes gives a file
\* of 133 bytes with the content at 40.
C6_StoredLayout ==
    (StoredOnly /\ Closed) =>
        /\ StreamSize(fs_.data) = Add(RecordsSize(hist, 1), U64(22))
        /\ \A i \in 1..Len(hist) : Accepted(hist[i]) => ContentInPlace(hist[i])
        /\ SubSeq(fs_.data, Len(fs_.data) - Len(central_dir_), Len(fs_.data) - 1)
               = central_dir_
        /\ EocdCount(fs_.data) = 1
        /\ (/\ Len(hist) = 1
            /\ hist[1].name = BubbleTxt
            /\ hist[1].payload = U64(15)) =>
               /\ StreamSize(fs_.data) = U64(133)
               /\ PositionOf(fs_.data, 4) = U64(40)

\* "bubble.txt" with 15 bytes, then an entry of two chunks, both stored, and
\* the archive closed.
C6_Witness ==
    /\ StoredOnly
    /\ Closed
    /\ Len(hist) = 2
    /\ Accepted(hist[1]) /\ Accepted(hist[2])
    /\ hist[1].name = BubbleTxt /\ hist[1].payload = U64(15)
    /\ hist[2].buf1 # "null"

\* C7, for payloads below 4 GiB: add_file_from_buffers on an open archive
\* returns the number of payload bytes it appended to the file after the
\* name, which is the compressed_size of the entry's header (the same in its
\* central-directory twin); with the stored method that is also the
\* uncompressed_size and the sum of the chunk lengths, a null second chunk
\* counting for 0.
C7_ReturnIsPayloadLength ==
    \A i \in 1..Len(hist) :
        (/\ hist[i].op = "entry"
         /\ Accepted(hist[i])
         /\ hist[i].open
         /\ Less(hist[i].payload, Two32)) =>
            /\ IsCdRecord(central_dir_, hist[i].cdat)
            /\ hist[i].ret
                   = ZExt(Field(central_dir_[hist[i].cdat + 3].b, 14, 4), 8)
            /\ hist[i].compression = STORED =>
                  /\ hist[i].ret = hist[i].payload
                  /\ hist[i].ret
                         = ZExt(Field(central_dir_[hist[i].cdat + 3].b, 18, 4), 8)
            /\ hist[i].after
                   = Add(hist[i].before,
                         Add(U64(30 + StrSize(hist[i].name)), hist[i].ret))

\* The name add_array is to give the entry: the given one, with ".npy"
\* after it if it does not end so.
WithNpy(name) == IF ends_with(name, NpyExt) THEN name ELSE StrCat(name, NpyExt)

\* C9, for arrays whose header and data take less than 4 GiB together:
\* add_array on an archive open and in good state adds one stored entry,
\* named as given with ".npy" appended if missing, whose payload is the
\* array header followed by product(shape) x sizeof(T) bytes of data; the
\* uncompressed_size and the value returned are the length of the header
\* plus that of the data.
C9_ArrayPayload ==
    \A i \in 1..Len(hist) :
        (/\ hist[i].op = "array"
         /\ Accepted(hist[i])
         /\ hist[i].good
         /\ Less(Add(U64(hist[i].hdr_len), hist[i].payload), Two32)) =>
            /\ IsCdRecord(central_dir_, hist[i].cdat)
            /\ central_dir_[hist[i].cdat + 5] = StrSeg(WithNpy(hist[i].name))
            /\ Field(central_dir_[hist[i].cdat + 3].b, 4, 2) = U16(STORED)
            /\ ZExt(Field(central_dir_[hist[i].cdat + 3].b, 18, 4), 8)
                   = Add(U64(hist[i].hdr_len), hist[i].payload)
            /\ hist[i].ret = Add(U64(hist[i].hdr_len), hist[i].payload)
            /\ Len(fs_.data) >= hist[i].at + 5
            /\ fs_.data[hist[i].at + 3] = StrSeg(WithNpy(hist[i].name))
            /\ fs_.data[hist[i].at + 4].k = "raw"
            /\ Len(fs_.data[hist[i].at + 4].b) = hist[i].hdr_len
            /\ fs_.data[hist[i].at + 5] = BufSeg(CallerBuf("D"), hist[i].payload)

\* The compress_chunk calls of a session that asked for Z_FINISH, and those
\* that ended the stream.
Finishes(calls) == {k \in 1..Len(calls) : calls[k].finish}
Ends(calls) == {k \in 1..Len(calls) : calls[k].ret = "Z_STREAM_END"}

\* The session of a deflate entry e: one call per chunk, Z_FINISH asked for
\* in the last call only, the stream ended in that call only; the
\* compressed size recorded is total_out, which the buffer holds.
SessionOf(e) ==
    /\ Len(e.z.calls) = IF e.buf1 = "null" THEN 1 ELSE 2
    /\ Finishes(e.z.calls) = {Len(e.z.calls)}
    /\ Ends(e.z.calls) = {Len(e.z.calls)}
    /\ e.z.compressed_size = e.z.total_out
    /\ IsCdRecord(central_dir_, e.cdat)
    /\ Field(central_dir_[e.cdat + 3].b, 14, 4) = Trunc(e.z.total_out, 4)
    /\ LessEq(e.z.total_out, e.z.bufsize)

\* The session of e was given the chunks whole, in order, and took them all.
FedWhole(e) ==
    /\ ZExt(e.z.calls[1].len, 8) = e.size0
    /\ e.buf1 # "null" => ZExt(e.z.calls[2].len, 8) = e.size1
    /\ e.z.total_in = e.payload

\* The lengths of the chunks of e and their sum are below 2^32.
FitsUInt(e) ==
    /\ Less(e.size0, Two32)
    /\ e.buf1 # "null" => Less(e.size1, Two32)
    /\ Less(e.payload, Two32)

\* C10: in every deflate entry the chunks go to one session in order,
\* Z_FINISH is asked for once, with the last chunk (the first if there is no
\* second, else the second and not the first), the stream ends once, the
\* compressed size recorded is total_out and fits the buffer sized
\* beforehand; and total_in is the total size of the chunks when their
\* lengths and its sum are below 2^32, what avail_in and total_size hold.
C10_DeflateSession ==
    \A i \in 1..Len(hist) :
        (hist[i].compression = DEFLATE /\ Accepted(hist[i])) =>
            /\ SessionOf(hist[i])
            /\ FitsUInt(hist[i]) => FedWhole(hist[i])

\* C10 as stated: total_in is the total size of the chunks, whatever their
\* lengths.
C10_AsStated ==
    \A i \in 1..Len(hist) :
        (hist[i].compression = DEFLATE /\ Accepted(hist[i])) =>
            /\ SessionOf(hist[i])
            /\ FedWhole(hist[i])

\* A deflate entry of two chunks, of 15 bytes and 1 byte, was added.
C10_Witness ==
    \E i \in 1..Len(hist) :
        /\ hist[i].compression = DEFLATE
        /\ Accepted(hist[i])
        /\ hist[i].buf1 # "null"
        /\ hist[i].size0 = U64(15)
        /\ Len(hist[i].z.calls) = 2
        /\ hist[i].z.total_in = U64(16)

(***************************************************************************)
(* Reading an array header back.                                           *)
(***************************************************************************)
\* The positions from..Len(h) of h that hold byte c.
Occurrences(h, c, from) == {i \in from..Len(h) : h[i] = c}

\* The text between the "(" and the ")}" of the dictionary.
TupleText(h) ==
    SubSeq(h, (CHOOSE i \in Occurrences(h, 40, 11) : TRUE) + 1,
              (CHOOSE i \in Occurrences(h, 125, 11) : TRUE) - 2)

\* A Python tuple of one element ends with a comma.
TrailingComma(t) == t # <<>> /\ t[Len(t)] = 44

\* The elements of the tuple, separated by commas.
Elements(t) == IF TrailingComma(t) THEN SubSeq(t, 1, Len(t) - 1) ELSE t

\* Where the elements begin: at 1, and after each comma.
TokenStarts(t) == {i \in 1..Len(t) : i = 1 \/ t[i - 1] = 44}

\* Where the element that begins at s ends.
TokenEnd(t, s) ==
    CHOOSE j \in (s - 1)..Len(t) :
        /\ j = Len(t) \/ t[j + 1] = 44
        /\ \A k \in s..j : t[k] # 44

\* A decimal numeral as std::to_string writes it.
IsNumeral(t, lo, hi) ==
    /\ hi >= lo
    /\ \A k \in lo..hi : t[k] \in 48..57
    /\ hi > lo => t[lo] # 48

RECURSIVE SmallDecimal(_, _, _)
\* The value of the digits lo..hi of t, five digits at most.
SmallDecimal(t, lo, hi) ==
    IF lo > hi THEN 0 ELSE (10 * SmallDecimal(t, lo, hi - 1)) + (t[hi] - 48)

RECURSIVE ParseDecimal(_, _, _)
\* The value of the digits lo..hi of t as a 64-bit number, five digits at a
\* time from the right.
ParseDecimal(t, lo, hi) ==
    IF hi - lo < 5 THEN U64(SmallDecimal(t, lo, hi))
    ELSE Add(Mul(ParseDecimal(t, lo, hi - 5), U64(100000)),
             U64(SmallDecimal(t, hi - 4, hi)))

\* The element of t from s to e is the numeral of v.
ElementIs(t, s, e, v) == IsNumeral(t, s, e) /\ ParseDecimal(t, s, e) = v

\* The elements t, which begin at starts, are the numerals of the
\* dimensions of shape, in order.
TupleDenotes(t, starts, shape) ==
    /\ Cardinality(starts) = Len(shape)
    /\ \A s \in starts :
          ElementIs(t, s, TokenEnd(t, s),
                    shape[Cardinality({x \in starts : x < s}) + 1])

\* The tuple text t of a dictionary denotes shape to Python: with a comma
\* at its end if and only if shape has one dimension.
ShapeIs(t, shape) ==
    /\ TrailingComma(t) <=> Len(shape) = 1
    /\ TupleDenotes(Elements(t), TokenStarts(Elements(t)), shape)

\* The dictionary of h holds one "(" and one "}", which follows a ")".
TupleWellFormed(h) ==
    /\ Cardinality(Occurrences(h, 40, 11)) = 1
    /\ Cardinality(Occurrences(h, 125, 11)) = 1
    /\ h[(CHOOSE i \in Occurrences(h, 125, 11) : TRUE) - 1] = 41

\* What C8 says of a header h but for its newlines: its length, its padding,
\* its header_len, its shape.
HeaderWellFormed(h, shape) ==
    /\ Len(h) > 0
    /\ Len(h) % 64 = 0
    /\ h[Len(h)] = 10
    /\ TupleWellFormed(h)
    /\ \A i \in ((CHOOSE j \in Occurrences(h, 125, 11) : TRUE) + 1)..(Len(h) - 1) :
          h[i] = 32
    /\ h[9] + (256 * h[10]) = Len(h) - 10
    /\ ShapeIs(TupleText(h), shape)

\* C8: for every element type and every shape of one dimension or more whose
\* header fits 65535 bytes, the header's length is a positive multiple of
\* 64; the text after the 10-byte preamble holds one newline, the last byte
\* of the header, with only spaces between the closing brace and it; the
\* 16-bit header_len is the length less the 10 bytes of the preamble; and
\* the shape reads (d0,) for one dimension, (d0,...,dn-1) with no comma at
\* the end for more.
C8_HeaderLayout ==
    hdr # <<>> =>
        /\ HeaderWellFormed(hdr, hdr_shape)
        /\ Occurrences(hdr, 10, 11) = {Len(hdr)}

\* C8 as stated: the header, preamble included, holds one newline, its last
\* byte.
C8_AsStated ==
    hdr # <<>> =>
        /\ HeaderWellFormed(hdr, hdr_shape)
        /\ Occurrences(hdr, 10, 1) = {Len(hdr)}

\* The header of a shape of LongDims dimensions was built: the high byte of
\* its header_len is 10.
C8_Witness ==
    /\ hdr # <<>>
    /\ Len(hdr_shape) = LongDims
    /\ Len(hdr) > 2560
    /\ hdr[10] = 10
====
